---- MODULE Spec2Model ----
(***************************************************************************)
(* Model of the ExamTopics PDF question parsers                            *)
(*   src/scripts/parser_working.py  (parse_question_from_text, parse_pdf)  *)
(*   src/scripts/final_parser.py    (parse_question_from_text,             *)
(*                                   parse_pdf_final)                      *)
(*                                                                         *)
(* Python strings are TLA+ strings; a character is a string of length 1.   *)
(* Offsets into a text are 0-based as in Python: Slice(s, a, b) = s[a:b].  *)
(***************************************************************************)
EXTENDS Integers, Sequences, FiniteSets, TLC

VARIABLES
    parser,            \* which script runs: "working" or "final"
    pc,                \* position of the running function
    all_text,          \* parse_pdf: the concatenated page texts
    pages_read,        \* parse_pdf: number of pages appended so far
    question_matches,  \* parse_pdf: [start, end] offsets of the marker matches
    i,                 \* parse_pdf: index of the next block of the loop
    start,             \* parse_pdf: start offset of the block last processed
    end,               \* parse_pdf: end offset of the block last processed
    questions,         \* parse_pdf: the output list
    question_text,     \* parse_question_from_text: its argument
    lines,             \* parse_question_from_text: question_text.split('\n')
    n,                 \* parse_question_from_text: lines consumed by the loop
    question_lines,    \* parse_question_from_text: stem line accumulator
    options,           \* parse_question_from_text: finalized raw options
    correct_answer,    \* parse_question_from_text: official answer or None
    current_option,    \* parse_question_from_text: <<>> or <<letter, text>>
    in_options,        \* parse_question_from_text: options mode flag
    is_multiple_choice,\* parse_question_from_text: multiple choice flag
    parsed             \* parse_question_from_text: the returned dict

vars == <<parser, pc, all_text, pages_read, question_matches, i, start, end,
          questions, question_text, lines, n, question_lines, options,
          correct_answer, current_option, in_options, is_multiple_choice,
          parsed>>

docVars == <<all_text, pages_read, question_matches, i, start, end, questions>>

scanVars == <<question_text, lines, n, question_lines, options, correct_answer,
              current_option, in_options, is_multiple_choice, parsed>>

-----------------------------------------------------------------------------
(* Bounds of the model *)

\* pages a document may have
MaxPages == 2

\* body lines a block may have after its marker line
MaxLines == 2

-----------------------------------------------------------------------------
(* Python str and re primitives *)

\* Python's None for the answer fields (no answer string contains 'N')
None == "None"

\* s[k] for a 0-based offset k, "" outside the string
At(s, k) == IF k >= 0 /\ k < Len(s) THEN SubSeq(s, k + 1, k + 1) ELSE ""

\* s[a:b] for 0 <= a, b <= len(s)
Slice(s, a, b) == IF a < b THEN SubSeq(s, a + 1, b) ELSE ""

\* the characters re's \s and str.strip() treat as whitespace
IsSpace(c) == c \in {" ", "\n", "\t"}

\* re's \d
IsDigit(c) == c \in {"0", "1", "2", "3", "4", "5", "6", "7", "8", "9"}

UpperToLower ==
    "A" :> "a" @@ "B" :> "b" @@ "C" :> "c" @@ "D" :> "d" @@ "E" :> "e" @@
    "F" :> "f" @@ "G" :> "g" @@ "H" :> "h" @@ "I" :> "i" @@ "J" :> "j" @@
    "K" :> "k" @@ "L" :> "l" @@ "M" :> "m" @@ "N" :> "n" @@ "O" :> "o" @@
    "P" :> "p" @@ "Q" :> "q" @@ "R" :> "r" @@ "S" :> "s" @@ "T" :> "t" @@
    "U" :> "u" @@ "V" :> "v" @@ "W" :> "w" @@ "X" :> "x" @@ "Y" :> "y" @@
    "Z" :> "z"

LowerToUpper ==
    "a" :> "A" @@ "b" :> "B" @@ "c" :> "C" @@ "d" :> "D" @@ "e" :> "E" @@
    "f" :> "F" @@ "g" :> "G" @@ "h" :> "H" @@ "i" :> "I" @@ "j" :> "J" @@
    "k" :> "K" @@ "l" :> "L" @@ "m" :> "M" @@ "n" :> "N" @@ "o" :> "O" @@
    "p" :> "P" @@ "q" :> "Q" @@ "r" :> "R" @@ "s" :> "S" @@ "t" :> "T" @@
    "u" :> "U" @@ "v" :> "V" @@ "w" :> "W" @@ "x" :> "X" @@ "y" :> "Y" @@
    "z" :> "Z"

\* c.lower() and c.upper() of one character
LowerCh(c) == IF c \in DOMAIN UpperToLower THEN UpperToLower[c] ELSE c
UpperCh(c) == IF c \in DOMAIN LowerToUpper THEN LowerToUpper[c] ELSE c

\* c.isalpha()
IsAlpha(c) == c \in DOMAIN UpperToLower \/ c \in DOMAIN LowerToUpper

\* ord(c) - ord('A') for an upper-case letter
OrdMinusA ==
    "A" :> 0 @@ "B" :> 1 @@ "C" :> 2 @@ "D" :> 3 @@ "E" :> 4 @@ "F" :> 5 @@
    "G" :> 6 @@ "H" :> 7 @@ "I" :> 8 @@ "J" :> 9 @@ "K" :> 10 @@ "L" :> 11 @@
    "M" :> 12 @@ "N" :> 13 @@ "O" :> 14 @@ "P" :> 15 @@ "Q" :> 16 @@
    "R" :> 17 @@ "S" :> 18 @@ "T" :> 19 @@ "U" :> 20 @@ "V" :> 21 @@
    "W" :> 22 @@ "X" :> 23 @@ "Y" :> 24 @@ "Z" :> 25

\* the concatenation of F(a), F(a + 1), ..., F(b - 1), strings or sequences,
\* empty being the value for a >= b
RECURSIVE Concat(_, _, _, _)
Concat(a, b, F(_), empty) ==
    IF a >= b THEN empty
    ELSE IF a + 1 = b THEN F(a)
    ELSE LET m == (a + b) \div 2
         IN  Concat(a, m, F, empty) \o Concat(m, b, F, empty)

\* s.upper()
Upper(s) == Concat(0, Len(s), LAMBDA k : UpperCh(At(s, k)), "")

\* s.replace(c, '') for a character c
Remove(s, c) ==
    Concat(0, Len(s), LAMBDA k : IF At(s, k) = c THEN "" ELSE At(s, k), "")

\* smallest j in k..e with P(j), -1 if there is none
FirstIn(k, e, P(_)) ==
    LET j == CHOOSE j \in k..(e + 1) :
                 (j = e + 1 \/ P(j)) /\ \A x \in k..(j - 1) : ~P(x)
    IN  IF k > e \/ j = e + 1 THEN -1 ELSE j

\* first offset >= k of s that holds no whitespace (re: \s* from k, greedy)
RECURSIVE SkipSpace(_, _)
SkipSpace(s, k) == IF IsSpace(At(s, k)) THEN SkipSpace(s, k + 1) ELSE k

\* first offset >= k of s that holds no digit (re: \d* from k, greedy)
RECURSIVE SkipDigits(_, _)
SkipDigits(s, k) == IF IsDigit(At(s, k)) THEN SkipDigits(s, k + 1) ELSE k

\* last offset < k of s that holds no whitespace, plus one
RECURSIVE SkipSpaceBack(_, _)
SkipSpaceBack(s, k) ==
    IF k > 0 /\ IsSpace(At(s, k - 1)) THEN SkipSpaceBack(s, k - 1) ELSE k

\* s.strip()
Strip(s) ==
    LET a == SkipSpace(s, 0)
    IN  IF a >= Len(s) THEN "" ELSE Slice(s, a, SkipSpaceBack(s, Len(s)))

\* offset of the first '\n' of s at or after k, len(s) if none
NextNewline(s, k) ==
    LET e == FirstIn(k, Len(s) - 1, LAMBDA j : At(s, j) = "\n")
    IN  IF e < 0 THEN Len(s) ELSE e

\* s[k:].split('\n')
RECURSIVE SplitFrom(_, _)
SplitFrom(s, k) ==
    LET e == NextNewline(s, k)
    IN  IF e >= Len(s) THEN <<Slice(s, k, e)>>
        ELSE <<Slice(s, k, e)>> \o SplitFrom(s, e + 1)
Split(s) == SplitFrom(s, 0)

\* re.sub(r'\s+', ' ', s): each maximal run of whitespace becomes one ' '
CollapseSpace(s) ==
    Concat(0, Len(s),
           LAMBDA k : IF ~IsSpace(At(s, k)) THEN At(s, k)
                      ELSE IF IsSpace(At(s, k - 1)) THEN "" ELSE " ",
           "")

\* ' '.join(seq)
RECURSIVE Join(_)
Join(seq) ==
    IF Len(seq) = 0 THEN ""
    ELSE IF Len(seq) = 1 THEN seq[1]
    ELSE seq[1] \o " " \o Join(Tail(seq))

\* the literal lit (given in lower case) matches s at offset k, ignoring case
LitAtI(s, k, lit) ==
    /\ k + Len(lit) <= Len(s)
    /\ \A j \in 0..(Len(lit) - 1) : LowerCh(At(s, k + j)) = At(lit, j)

\* the literal lit matches s at offset k, case-sensitively
LitAt(s, k, lit) ==
    /\ k + Len(lit) <= Len(s)
    /\ Slice(s, k, k + Len(lit)) = lit

\* int(s) for a string of digits
DigitValue ==
    "0" :> 0 @@ "1" :> 1 @@ "2" :> 2 @@ "3" :> 3 @@ "4" :> 4 @@ "5" :> 5 @@
    "6" :> 6 @@ "7" :> 7 @@ "8" :> 8 @@ "9" :> 9
RECURSIVE IntOf(_, _)
IntOf(s, k) ==
    IF k = 0 THEN 0 ELSE 10 * IntOf(s, k - 1) + DigitValue[At(s, k - 1)]
Int10(s) == IntOf(s, Len(s))

-----------------------------------------------------------------------------
(* The regular expressions of the two scripts *)

\* re.match(r'Question\s*#\d+\s*Topic\s*\d+', s[k:], re.I): the end offset of
\* the match that starts at offset k, -1 if there is none
MarkerEnd(s, k) ==
    IF ~LitAtI(s, k, "question") THEN -1
    ELSE LET a == SkipSpace(s, k + 8)
             b == SkipDigits(s, a + 1)
             c == SkipSpace(s, b)
             d == SkipSpace(s, c + 5)
             e == SkipDigits(s, d)
         IN  IF /\ At(s, a) = "#"
                /\ b > a + 1
                /\ LitAtI(s, c, "topic")
                /\ e > d
             THEN e ELSE -1

\* list(re.finditer(question_pattern, s, re.I)) from offset k on: the matches
\* left to right, each scan resuming at the end of the previous match
RECURSIVE FindIter(_, _)
FindIter(s, k) ==
    LET a == FirstIn(k, Len(s) - 1, LAMBDA j : MarkerEnd(s, j) >= 0)
    IN  IF a < 0 THEN <<>>
        ELSE <<[start |-> a, end |-> MarkerEnd(s, a)]>>
             \o FindIter(s, MarkerEnd(s, a))

\* the characters of the class [A-D,\s] under re.I
InAnswerClass(c) ==
    \/ c \in {"A", "B", "C", "D", "a", "b", "c", "d", ","}
    \/ IsSpace(c)

RECURSIVE SkipAnswerClass(_, _)
SkipAnswerClass(s, k) ==
    IF InAnswerClass(At(s, k)) THEN SkipAnswerClass(s, k + 1) ELSE k

\* \s*([A-D,\s]+) under re.I at offset k: group 1 as [a, b) offsets, <<>> when
\* the pattern does not match. \s* is greedy; when nothing of the class
\* follows the whitespace it gives its last character back to the group.
AnswerGroup(s, k) ==
    LET w == SkipSpace(s, k)
        e == SkipAnswerClass(s, w)
    IN  IF e > w THEN <<w, e>>
        ELSE IF w > k THEN <<w - 1, w>>
        ELSE <<>>

\* the offset after r'Correct\s+Answer:' matched at offset 0 of the line under
\* re.I, -1 when it does not match
CorrectPrefixEnd(line) ==
    IF ~LitAtI(line, 0, "correct") THEN -1
    ELSE LET p == SkipSpace(line, 7)
         IN  IF p > 7 /\ LitAtI(line, p, "answer:") THEN p + 7 ELSE -1

\* group(1).upper().replace(' ', '').replace(',', '')
AnswerLetters(g) == Remove(Remove(Upper(g), " "), ",")

\* parser_working: re.match(r'Correct\s+Answer:\s*([A-D,\s]+)', line, re.I)
\* followed by the clean-up of group 1; None when there is no match
CorrectAnswerWorking(line) ==
    LET p == CorrectPrefixEnd(line)
        g == IF p < 0 THEN <<>> ELSE AnswerGroup(line, p)
    IN  IF g = <<>> THEN None ELSE AnswerLetters(Slice(line, g[1], g[2]))

\* final_parser: re.match(r'Correct\s+Answer:\s*([A-D])', line, re.I) and
\* group(1).upper(); None when there is no match
CorrectAnswerFinal(line) ==
    LET p == CorrectPrefixEnd(line)
        w == IF p < 0 THEN -1 ELSE SkipSpace(line, p)
    IN  IF w >= 0 /\ LowerCh(At(line, w)) \in {"a", "b", "c", "d"}
        THEN UpperCh(At(line, w)) ELSE None

\* parser_working: re.search(r'Selected Answer:\s*([A-D,\s]+)', s, re.I)
\* followed by the clean-up of group 1; None when no match
CommunityAnswerWorking(s) ==
    LET a == FirstIn(0, Len(s) - 1, LAMBDA j :
                 LitAtI(s, j, "selected answer:")
                 /\ AnswerGroup(s, j + 16) # <<>>)
    IN  IF a < 0 THEN None
        ELSE LET g == AnswerGroup(s, a + 16)
             IN  AnswerLetters(Slice(s, g[1], g[2]))

\* final_parser: re.search(r'Selected Answer:\s*([A-D])', s, re.I) and
\* group(1).upper(); None when no match
CommunityAnswerFinal(s) ==
    LET a == FirstIn(0, Len(s) - 1, LAMBDA j :
                 LitAtI(s, j, "selected answer:")
                 /\ LowerCh(At(s, SkipSpace(s, j + 16))) \in {"a", "b", "c", "d"})
    IN  IF a < 0 THEN None
        ELSE UpperCh(At(s, SkipSpace(s, a + 16)))

\* re.match(r'^([A-D])\.\s*(.*)', line): <<group 1, group 2>>, <<>> when the
\* line is no option-start line (case-sensitive; the line holds no '\n')
OptionMatch(line) ==
    IF At(line, 0) \in {"A", "B", "C", "D"} /\ At(line, 1) = "."
    THEN <<At(line, 0), Slice(line, SkipSpace(line, 2), Len(line))>>
    ELSE <<>>

\* re.match(r'([A-D])\s*\((\d+)%\)', s[k:], re.I): the end offset of the match
\* at offset k, -1 if there is none
VoteEnd(s, k) ==
    IF LowerCh(At(s, k)) \notin {"a", "b", "c", "d"} THEN -1
    ELSE LET w == SkipSpace(s, k + 1)
             d == SkipDigits(s, w + 1)
         IN  IF /\ At(s, w) = "("
                /\ d > w + 1
                /\ At(s, d) = "%"
                /\ At(s, d + 1) = ")"
             THEN d + 2 ELSE -1

\* re.findall(r'([A-D])\s*\((\d+)%\)', s, re.I) from offset k on: the
\* <<letter, percentage>> pairs left to right
RECURSIVE VoteMatches(_, _)
VoteMatches(s, k) ==
    LET a == FirstIn(k, Len(s) - 1, LAMBDA j : VoteEnd(s, j) >= 0)
        e == VoteEnd(s, a)
    IN  IF a < 0 THEN <<>>
        ELSE <<<<At(s, a), Slice(s, SkipSpace(s, a + 1) + 1, e - 2)>>>>
             \o VoteMatches(s, e)

\* first offset in [k, e) where lit (lower case) matches s[..e] ignoring case,
\* -1 if none
FindLitI(s, k, e, lit) ==
    FirstIn(k, e - Len(lit), LAMBDA j : LitAtI(s, j, lit))

\* smallest end offset of (two|three|2|3) found in [k, e), -1 if none
FirstCountEnd(s, k, e) ==
    LET ends == {FindLitI(s, k, e, w) + Len(w) : w \in
                    {w \in {"two", "three", "2", "3"} :
                        FindLitI(s, k, e, w) >= 0}}
    IN  IF ends = {} THEN -1
        ELSE CHOOSE m \in ends : \A x \in ends : m <= x

\* r'\(.*choose.*(two|three|2|3).*\)' under re.I matches s from offset a on:
\* '(' at a, then 'choose', a count word and ')' in that order before the
\* next '\n' ('.' matches no '\n')
ChooseAt(s, a) ==
    /\ At(s, a) = "("
    /\ LET e == NextNewline(s, a)
           b == FindLitI(s, a + 1, e, "choose")
           c == IF b < 0 THEN -1 ELSE FirstCountEnd(s, b + 6, e)
       IN  c >= 0 /\ FindLitI(s, c, e, ")") >= 0

\* re.search(r'\(.*choose.*(two|three|2|3).*\)', s, re.I) is not None
ChooseSearch(s) == \E a \in 0..(Len(s) - 1) : ChooseAt(s, a)

-----------------------------------------------------------------------------
(* parse_question_from_text: the per-line loop *)

\* the locals of parse_question_from_text before its loop; halted is set when
\* the loop has executed its break
ScanInit ==
    [question_lines     |-> <<>>,
     options            |-> <<>>,
     correct_answer     |-> None,
     current_option     |-> <<>>,
     in_options         |-> FALSE,
     is_multiple_choice |-> FALSE,
     halted             |-> FALSE]

\* the Correct-Answer match of the running script on a stripped line
CorrectAnswerOf(p, line) ==
    IF p = "working" THEN CorrectAnswerWorking(line) ELSE CorrectAnswerFinal(line)

\* the multiple-choice test of the loop body (parser_working only); in_text
\* is the value of re.search(pattern, question_text, re.I), the same in
\* every iteration
ChooseStep(p, in_text, line, st) ==
    IF p = "working" /\ (ChooseSearch(line) \/ in_text)
    THEN TRUE ELSE st.is_multiple_choice

\* whether the loop executes its break on a line whose Correct-Answer match
\* gave ans
BreakNever(ans) == FALSE
BreaksOn(ans) == ans # None

\* one iteration of `for line in lines` on the raw line raw, from locals st
ScanLine(p, in_text, st, raw) ==
    LET line == Strip(raw)
        st1  == [st EXCEPT !.is_multiple_choice = ChooseStep(p, in_text, line, st)]
        ans  == CorrectAnswerOf(p, line)
        opt  == OptionMatch(line)
    IN  IF line = "" THEN st
        ELSE IF ans # None
            THEN [st1 EXCEPT !.correct_answer = ans, !.halted = BreaksOn(ans)]
        ELSE IF opt # <<>>
            THEN [st1 EXCEPT
                    !.options = IF st.current_option # <<>>
                                THEN Append(@, Strip(st.current_option[2]))
                                ELSE @,
                    !.current_option = opt,
                    !.in_options = TRUE]
        ELSE IF st.in_options /\ st.current_option # <<>>
            THEN [st1 EXCEPT !.current_option =
                                <<@[1], @[2] \o " " \o line>>]
        ELSE IF ~st.in_options
            THEN [st1 EXCEPT !.question_lines = Append(@, line)]
        ELSE st1

\* the whole loop over lines[k..], stopping at the break
RECURSIVE ScanFrom(_, _, _, _, _)
ScanFrom(p, in_text, ls, k, st) ==
    IF k > Len(ls) \/ st.halted THEN st
    ELSE ScanFrom(p, in_text, ls, k + 1, ScanLine(p, in_text, st, ls[k]))

-----------------------------------------------------------------------------
(* parse_question_from_text: after the loop *)

\* options after "Save last option"
WithLastOptionDropped(st) == st.options
WithLastOption(st) ==
    IF st.current_option # <<>>
    THEN Append(st.options, Strip(st.current_option[2]))
    ELSE st.options

\* the community answer of the running script, searched in the full text
CommunityAnswerOf(p, text) ==
    IF p = "working" THEN CommunityAnswerWorking(text)
    ELSE CommunityAnswerFinal(text)

\* votes = {letter.upper(): int(percentage) for ...}: a later pair of a letter
\* replaces an earlier one
RECURSIVE VotesDict(_, _)
VotesDict(vm, k) ==
    IF k = 0 THEN <<>>
    ELSE LET d   == VotesDict(vm, k - 1)
             key == UpperCh(vm[k][1])
         IN  [x \in (DOMAIN d) \cup {key} |->
                 IF x = key THEN Int10(vm[k][2]) ELSE d[x]]

\* max(votes.values())
MaxVote(votes) ==
    CHOOSE m \in {votes[x] : x \in DOMAIN votes} :
        \A x \in DOMAIN votes : votes[x] <= m

\* the community_confidence computed from the vote matches of the text
ConfidenceOf(text) ==
    LET vm == VoteMatches(text, 0)
    IN  IF vm = <<>> THEN "none"
        ELSE LET max_vote == MaxVote(VotesDict(vm, Len(vm)))
             IN  IF max_vote > 70 THEN "high"
                 ELSE IF max_vote > 50 THEN "medium"
                 ELSE "low"

\* the cleaned_options loop from raw option k on
RECURSIVE CleanOptions(_, _)
CleanOptions(opts, k) ==
    IF k > Len(opts) THEN <<>>
    ELSE LET cleaned_option == CollapseSpace(Strip(opts[k]))
         IN  (IF cleaned_option # "" THEN <<cleaned_option>> ELSE <<>>)
             \o CleanOptions(opts, k + 1)

\* the dict returned by parse_question_from_text from the locals st left by
\* the loop (final_parser returns no is_multiple_choice key: FALSE here)
ParsedOf(p, text, st) ==
    [question             |-> Strip(Join(st.question_lines)),
     options              |-> CleanOptions(WithLastOption(st), 1),
     correct_answer       |-> st.correct_answer,
     community_answer     |-> CommunityAnswerOf(p, text),
     community_confidence |-> ConfidenceOf(text),
     is_multiple_choice   |-> st.is_multiple_choice]

\* parse_question_from_text(question_text) of script p
ParseQuestionFromText(p, text) ==
    LET in_text == p = "working" /\ ChooseSearch(text)
    IN  ParsedOf(p, text, ScanFrom(p, in_text, Split(text), 1, ScanInit))

-----------------------------------------------------------------------------
(* parse_pdf / parse_pdf_final: validation and answer resolution of a block *)

\* the minimum stem length of the validation
MinQuestionLen == 30

\* Python truthiness of an answer field (None and '' are falsy)
Truthy(a) == a # None /\ a # ""

\* the "Insufficient data" test
InsufficientNoStem(pq) ==
    \/ Len(pq.options) < 2
    \/ ~Truthy(pq.correct_answer)
Insufficient(pq) ==
    \/ Len(pq.question) < MinQuestionLen
    \/ Len(pq.options) < 2
    \/ ~Truthy(pq.correct_answer)

\* final_answer = community_answer if community_answer else correct_answer
FinalAnswerOfficial(pq) ==
    IF Truthy(pq.correct_answer) THEN pq.correct_answer
    ELSE pq.community_answer
FinalAnswer(pq) ==
    IF Truthy(pq.community_answer) THEN pq.community_answer
    ELSE pq.correct_answer

\* ord(c) - ord('A') (the answer strings are upper-cased before this is used)
Ord(c) == IF c \in DOMAIN OrdMinusA THEN OrdMinusA[c] ELSE OrdMinusA[UpperCh(c)] + 32

\* [ord(letter) - ord('A') for letter in s if letter.isalpha()]
AnswerIndices(s) ==
    Concat(0, Len(s),
           LAMBDA k : IF IsAlpha(At(s, k)) THEN <<Ord(At(s, k))>> ELSE <<>>,
           <<>>)

\* [idx for idx in indices if 0 <= idx < nopts]
ValidIndices(indices, nopts) ==
    SelectSeq(indices, LAMBDA idx : 0 <= idx /\ idx < nopts)

\* not (0 <= answer_index < nopts)
NeverOutOfRange(answer_index, nopts) == FALSE
OutOfRange(answer_index, nopts) == ~(0 <= answer_index /\ answer_index < nopts)

\* an answer value: a Python int (is_list FALSE, one index) or a Python list
IntAnswer(k) == [is_list |-> FALSE, indices |-> <<k>>]
ListAnswer(ks) == [is_list |-> TRUE, indices |-> ks]

\* the outcome of a loop iteration with no record appended
Skip == [accepted |-> FALSE]

\* the record appended for an accepted block
Accept(p, pq, answer_value) ==
    [accepted |-> TRUE,
     data |-> [question |-> pq.question,
               options |-> pq.options,
               answer |-> answer_value,
               is_multiple_choice |-> pq.is_multiple_choice,
               source |-> [correct_answer |-> pq.correct_answer,
                           community_answer |-> pq.community_answer,
                           community_confidence |-> pq.community_confidence]]]

\* parser_working: the multiple-choice branch
ResolveMulti(p, pq) ==
    LET answer_indices == AnswerIndices(FinalAnswer(pq))
        valid_indices  == ValidIndices(answer_indices, Len(pq.options))
    IN  IF Len(valid_indices) # Len(answer_indices) \/ Len(valid_indices) = 0
        THEN Skip
        ELSE Accept(p, pq, ListAnswer(valid_indices))

\* parser_working: the single-choice branch
ResolveSingle(p, pq) ==
    LET final_answer == FinalAnswer(pq)
    IN  IF ~Truthy(final_answer) THEN Skip
        ELSE IF ~IsAlpha(At(final_answer, 0)) THEN Skip
        ELSE LET answer_index == Ord(At(final_answer, 0))
             IN  IF OutOfRange(answer_index, Len(pq.options))
                 THEN Skip
                 ELSE Accept(p, pq, IntAnswer(answer_index))

\* the branch condition of parser_working
TakesMultiBranch(pq) == pq.is_multiple_choice /\ Len(FinalAnswer(pq)) > 1

\* parser_working: the body of the block loop after parsing
ResolveWorking(pq) ==
    IF Insufficient(pq) THEN Skip
    ELSE IF TakesMultiBranch(pq) THEN ResolveMulti("working", pq)
    ELSE ResolveSingle("working", pq)

\* final_parser: the body of the block loop after parsing; ord() of a string
\* that is not one character raises, which the except clause turns into a skip
ResolveFinal(pq) ==
    IF Insufficient(pq) THEN Skip
    ELSE IF Len(FinalAnswer(pq)) # 1 THEN Skip
    ELSE LET answer_index == Ord(FinalAnswer(pq))
         IN  IF OutOfRange(answer_index, Len(pq.options))
             THEN Skip
             ELSE Accept("final", pq, IntAnswer(answer_index))

\* the outcome of one iteration of the block loop of script p on a block
ProcessBlockText(p, block) ==
    LET pq == ParseQuestionFromText(p, block)
    IN  IF p = "working" THEN ResolveWorking(pq) ELSE ResolveFinal(pq)

-----------------------------------------------------------------------------
(* Inputs *)

\* the two scripts
Parsers == {"working", "final"}

\* texts a PDF page may yield (page.extract_text())
Pages ==
    { "Question #1 Topic 1\nWhich service stores objects?\nA. S3\nB. EC2\nC. RDS\nD. EBS",
      "question#12topic 3 Pick the best two (Choose two.)\nA. one\nand more\nB.\nC. three\nD. four",
      "QUESTION #3 TOPIC 2\nToo short\nA. x\nB. y\nCorrect Answer: A\nQuestion #4 Topic 2 Which database is relational?\nA. RDS\nCorrect Answer: A",
      "Question #5 Topic 1\nWhich one is a database?\nA. S3\nB. RDS\nCorrect Answer: B",
      "Correct Answer: D",
      "Correct Answer: B\nSelected Answer: , none",
      "Correct Answer: A\nSelected Answer: B, d (Choose two)",
      "Correct Answer: B\nSelected Answer:\n\nnot sure",
      "Correct Answer: A\nSelected Answer: C",
      "Question #6 Topic 1 Which two are compute? (Choose 2)\nA. EC2\nB. S3\nC. Lambda\nCorrect Answer: AC\nSelected Answer: AC (90%)" }

\* lines a block may hold after its marker line
BodyLines ==
    { "Which one?",
      "(Choose two.)",
      "A. S3",
      "B.  EC2\tor  ECS",
      "C.",
      "" }

\* what may follow the body of a block: more options, the answer and the
\* discussion section
Trailers ==
    { "",
      "Correct Answer: B",
      "D. EBS\ncorrect  answer: a, c\nSelected Answer: AC\nA (80%) C (20%)",
      "Correct Answer: none of these\nD. late option",
      "Correct Answer: A\nCorrect Answer: D\nSelected Answer: B\nbut D (71%) D (9%)",
      "  B. EC2  \n\n or ECS\nSelected Answer: C\nC (51%) A(49%)",
      "Correct Answer: C\nB (50%), c (70%)",
      "Correct Answer: A,\tB\nA (0%)\n(pick 3 of them)" }

\* the marker line a block starts with
MarkerLine == "Question #1 Topic 1"

\* the blocks of at most k body lines followed by nothing
RECURSIVE Bodies(_)
Bodies(k) ==
    IF k = 0 THEN {MarkerLine}
    ELSE Bodies(k - 1) \cup
         {b \o "\n" \o l : b \in Bodies(k - 1), l \in BodyLines}

\* the blocks parse_question_from_text is run on
Blocks ==
    {IF t = "" THEN b ELSE b \o "\n" \o t : b \in Bodies(MaxLines), t \in Trailers}

-----------------------------------------------------------------------------
(* parse_pdf / parse_pdf_final as a state machine *)

NoParse == [question |-> "", options |-> <<>>, correct_answer |-> None,
            community_answer |-> None, community_confidence |-> "none",
            is_multiple_choice |-> FALSE]

ScanIdle ==
    /\ question_text = ""
    /\ lines = <<>>
    /\ n = 0
    /\ question_lines = <<>>
    /\ options = <<>>
    /\ correct_answer = None
    /\ current_option = <<>>
    /\ in_options = FALSE
    /\ is_multiple_choice = FALSE
    /\ parsed = NoParse

DocIdle ==
    /\ all_text = ""
    /\ pages_read = 0
    /\ question_matches = <<>>
    /\ i = 0
    /\ start = 0
    /\ end = 0
    /\ questions = <<>>

\* the state on entry of parse_pdf / parse_pdf_final
Init ==
    /\ parser \in Parsers
    /\ pc = "read"
    /\ DocIdle
    /\ ScanIdle

\* one iteration of the page loop: all_text += page_text + "\n"
ReadPage ==
    /\ pc = "read"
    /\ pages_read < MaxPages
    /\ \E page_text \in Pages :
          all_text' = IF page_text # "" THEN all_text \o page_text \o "\n"
                      ELSE all_text
    /\ pages_read' = pages_read + 1
    /\ UNCHANGED <<parser, pc, question_matches, i, start, end, questions>>
    /\ UNCHANGED scanVars

\* question_matches = list(re.finditer(...)); questions = []
FindBlocks ==
    /\ pc = "read"
    /\ question_matches' = FindIter(all_text, 0)
    /\ questions' = <<>>
    /\ i' = 0
    /\ pc' = "loop"
    /\ UNCHANGED <<parser, all_text, pages_read, start, end>>
    /\ UNCHANGED scanVars

\* the end offset the loop computes for block k (0-based)
BlockEndOfText(k) == Len(all_text)
BlockEnd(k) ==
    IF k + 1 < Len(question_matches) THEN question_matches[k + 2].start
    ELSE Len(all_text)

\* questions.append(question_data) for an accepted block, continue otherwise
AccumulateInFront(qs, r) == IF r.accepted THEN <<r.data>> \o qs ELSE qs
Accumulate(qs, r) == IF r.accepted THEN Append(qs, r.data) ELSE qs

\* one iteration of `for i, match in enumerate(question_matches)`
ProcessBlock ==
    /\ pc = "loop"
    /\ i < Len(question_matches)
    /\ LET s == question_matches[i + 1].start
           e == BlockEnd(i)
           question_block == Slice(all_text, s, e)
           pq == ParseQuestionFromText(parser, question_block)
           r == IF parser = "working" THEN ResolveWorking(pq)
                ELSE ResolveFinal(pq)
       IN  /\ start' = s
           /\ end' = e
           /\ question_text' = question_block
           /\ parsed' = pq
           /\ questions' = Accumulate(questions, r)
    /\ i' = i + 1
    /\ UNCHANGED <<parser, pc, all_text, pages_read, question_matches>>
    /\ UNCHANGED <<lines, n, question_lines, options, correct_answer,
                   current_option, in_options, is_multiple_choice>>

\* return questions
Return ==
    /\ pc = "loop"
    /\ i = Len(question_matches)
    /\ pc' = "done"
    /\ UNCHANGED <<parser, all_text, pages_read, question_matches, i, start,
                   end, questions>>
    /\ UNCHANGED scanVars

Next == ReadPage \/ FindBlocks \/ ProcessBlock \/ Return

Spec == Init /\ [][Next]_vars

-----------------------------------------------------------------------------
(* parse_question_from_text as a state machine *)

\* the locals of the running loop as ScanLine takes them
Locals ==
    [question_lines     |-> question_lines,
     options            |-> options,
     correct_answer     |-> correct_answer,
     current_option     |-> current_option,
     in_options         |-> in_options,
     is_multiple_choice |-> is_multiple_choice,
     halted             |-> FALSE]

\* the state on entry of the loop of parse_question_from_text
InitScan ==
    /\ parser \in Parsers
    /\ pc = "scan"
    /\ DocIdle
    /\ question_text \in Blocks
    /\ lines = Split(question_text)
    /\ n = 0
    /\ question_lines = <<>>
    /\ options = <<>>
    /\ correct_answer = None
    /\ current_option = <<>>
    /\ in_options = FALSE
    /\ is_multiple_choice = FALSE
    /\ parsed = NoParse

\* one iteration of `for line in lines`; the loop ends at its break or after
\* the last line
ScanStep ==
    /\ pc = "scan"
    /\ n < Len(lines)
    /\ LET st == ScanLine(parser, ChooseSearch(question_text), Locals,
                          lines[n + 1])
       IN  /\ question_lines' = st.question_lines
           /\ options' = st.options
           /\ correct_answer' = st.correct_answer
           /\ current_option' = st.current_option
           /\ in_options' = st.in_options
           /\ is_multiple_choice' = st.is_multiple_choice
           /\ pc' = IF st.halted \/ n + 1 = Len(lines) THEN "post" ELSE "scan"
    /\ n' = n + 1
    /\ UNCHANGED <<parser, question_text, lines, parsed>>
    /\ UNCHANGED docVars

\* the code after the loop, up to the return
Finish ==
    /\ pc = "post"
    /\ options' = WithLastOption(Locals)
    /\ parsed' = ParsedOf(parser, question_text, Locals)
    /\ pc' = "returned"
    /\ UNCHANGED <<parser, question_text, lines, n, question_lines,
                   correct_answer, current_option, in_options,
                   is_multiple_choice>>
    /\ UNCHANGED docVars

NextScan == ScanStep \/ Finish

SpecScan == InitScan /\ [][NextScan]_vars

-----------------------------------------------------------------------------
(* Properties of parse_pdf / parse_pdf_final (checked under Spec) *)

\* 0-based index of an upper-case letter in the alphabet, -1 for anything else
LetterIndex(c) ==
    LET alphabet == "ABCDEFGHIJKLMNOPQRSTUVWXYZ"
        hits == {k \in 0..25 : SubSeq(alphabet, k + 1, k + 1) = c}
    IN  IF hits = {} THEN -1 ELSE CHOOSE k \in hits : TRUE

\* the answer string a record is resolved from: the community answer when
\* captured and non-empty, the official answer otherwise
AnswerSource(pq) ==
    IF pq.community_answer \notin {None, ""} THEN pq.community_answer
    ELSE pq.correct_answer

\* a step of the block loop: block i + 1 has just been processed
BlockStep == pc = "loop" /\ i' = i + 1

\* a step of the block loop that appended a record
AcceptStep == BlockStep /\ Len(questions') = Len(questions) + 1

C1Markers ==
    LET k == Len(question_matches)
    IN  /\ \A j \in 1..k :
              /\ question_matches[j].start < question_matches[j].end
              /\ MarkerEnd(all_text, question_matches[j].start)
                    = question_matches[j].end
        /\ \A j \in 1..(k - 1) :
              question_matches[j].end <= question_matches[j + 1].start
        /\ \A q \in 0..(Len(all_text) - 1) :
              MarkerEnd(all_text, q) >= 0 =>
                 \E j \in 1..k : /\ question_matches[j].start <= q
                                 /\ q < question_matches[j].end

C1Blocks ==
    LET k == Len(question_matches)
    IN  /\ i <= k
        /\ pc = "done" => i = k
        /\ i >= 1 =>
              /\ start = question_matches[i].start
              /\ end = IF i < k THEN question_matches[i + 1].start
                       ELSE Len(all_text)
              /\ start < end
              /\ question_text = Slice(all_text, start, end)
        /\ k = 0 => questions = <<>>

C1Contiguous ==
    BlockStep => start' = IF i = 0 THEN question_matches[1].start ELSE end

\* C1: the matches are the k markers of the text, left to right and
\* non-overlapping; the loop forms exactly k blocks, block i running from the
\* start of marker i to the start of marker i + 1 (end of text for the last),
\* each block starting where the previous one ended; with no marker no block
\* is formed and the output is empty.
C1_BlockSegmentation ==
    /\ [](pc \in {"loop", "done"} => C1Markers /\ C1Blocks)
    /\ [][C1Contiguous]_vars

\* two blocks were formed from a text that starts before its first marker
C1_Witness ==
    /\ pc = "done"
    /\ i = 2
    /\ question_matches[1].start > 0
    /\ end = Len(all_text)

C2Records ==
    \A j \in 1..Len(questions) :
        /\ Len(questions[j].question) >= 30
        /\ Len(questions[j].options) >= 2
        /\ questions[j].source.correct_answer \notin {None, ""}

C2Failing(pq) ==
    \/ Len(pq.question) < 30
    \/ Len(pq.options) < 2
    \/ pq.correct_answer \in {None, ""}

C2Skip ==
    BlockStep /\ C2Failing(parsed') => questions' = questions /\ pc' = "loop"

\* C2: every output record has a stem of at least 30 characters, at least 2
\* options and a non-empty official answer; a block failing one of the three
\* is skipped: no record is appended and the loop goes on to the next block
\* until all blocks are processed.
C2_MinimumFields ==
    /\ [](C2Records /\ (pc = "done" => i = Len(question_matches)))
    /\ [][C2Skip]_vars

\* two blocks were skipped for insufficient data and the third was accepted
C2_Witness ==
    /\ pc = "loop"
    /\ i = 3
    /\ Len(questions) = 1
    /\ questions[1].question = parsed.question
    /\ ~C2Failing(parsed)

C3Records ==
    \A j \in 1..Len(questions) :
        LET answer == questions[j].answer
        IN  /\ Len(answer.indices) >= 1
            /\ ~answer.is_list => Len(answer.indices) = 1
            /\ \A x \in 1..Len(answer.indices) :
                  /\ 0 <= answer.indices[x]
                  /\ answer.indices[x] < Len(questions[j].options)

\* the answer of the block cannot be resolved within its options: a letter's
\* index is out of range, or there is no letter to resolve
C3Unresolvable(pq) ==
    LET src == AnswerSource(pq)
        letters == {k \in 0..(Len(src) - 1) : IsAlpha(At(src, k))}
        bad(k) == LetterIndex(At(src, k)) \notin 0..(Len(pq.options) - 1)
    IN  IF pq.is_multiple_choice /\ Len(src) > 1
        THEN letters = {} \/ \E k \in letters : bad(k)
        ELSE 0 \notin letters \/ bad(0)

C3Reject == BlockStep /\ C3Unresolvable(parsed') => questions' = questions

\* C3: in every output record the answer holds at least one index (exactly one
\* for a single integer) and every index is within the record's own options;
\* a block with an index out of range or with no resolvable letter is
\* rejected.
C3_IndicesInRange == []C3Records /\ [][C3Reject]_vars

\* a multi-choice record with two indices was accepted
C3_Witness ==
    \E j \in 1..Len(questions) :
        /\ questions[j].answer.is_list
        /\ Len(questions[j].answer.indices) >= 2
        /\ Len(questions[j].options) > 3

\* the indices of the letters of src, in the order of the string
C4LetterIndices(src) ==
    SelectSeq([k \in 1..Len(src) |-> LetterIndex(At(src, k - 1))],
              LAMBDA x : x >= 0)

C4Resolved ==
    AcceptStep =>
        LET pq  == parsed'
            r   == questions'[Len(questions')]
            src == AnswerSource(pq)
        IN  /\ r.options = pq.options
            /\ r.source.correct_answer = pq.correct_answer
            /\ r.source.community_answer = pq.community_answer
            /\ IF pq.is_multiple_choice /\ Len(src) > 1
               THEN r.answer = [is_list |-> TRUE,
                                indices |-> C4LetterIndices(src)]
               ELSE r.answer = [is_list |-> FALSE,
                                indices |-> <<LetterIndex(At(src, 0))>>]

\* C4: an accepted record is resolved from the community answer when one was
\* captured and is non-empty and from the official answer otherwise; on the
\* single-choice path the answer is the index of the first character, on the
\* multi-choice path (flag set, more than one character) the list of the
\* indices of its letters in string order.
C4_AnswerResolution == [][C4Resolved]_vars

\* a record was resolved from a community answer that disagrees with the
\* official one
C4_Witness ==
    \E j \in 1..Len(questions) :
        LET r == questions[j]
        IN  /\ r.source.community_answer \notin {None, ""}
            /\ r.source.correct_answer = "A"
            /\ r.answer = [is_list |-> FALSE, indices |-> <<2>>]

\* C5: in every record of parse_pdf (parser_working) the answer is a list
\* exactly when is_multiple_choice is true.
C5_ShapeMatchesFlag ==
    parser = "working" =>
        \A j \in 1..Len(questions) :
            questions[j].answer.is_list = questions[j].is_multiple_choice

\* the records of the accepted blocks among blocks 1..j, in block order
RECURSIVE C8Output(_)
C8Output(j) ==
    IF j = 0 THEN <<>>
    ELSE LET e == IF j < Len(question_matches)
                  THEN question_matches[j + 1].start ELSE Len(all_text)
             r == ProcessBlockText(parser,
                      Slice(all_text, question_matches[j].start, e))
         IN  IF r.accepted THEN Append(C8Output(j - 1), r.data)
             ELSE C8Output(j - 1)

C8AppendOnly ==
    /\ Len(questions') \in {Len(questions), Len(questions) + 1}
    /\ SubSeq(questions', 1, Len(questions)) = questions

\* C8: after any prefix of the blocks the output holds exactly the records of
\* the accepted blocks of the prefix, in block order; a step never removes,
\* reorders or changes a record already appended, and a rejected block leaves
\* the output unchanged.
C8_OutputOrder ==
    /\ [](pc \in {"loop", "done"} => questions = C8Output(i))
    /\ [][C8AppendOnly]_vars

\* two different records were appended, one per block
C8_Witness ==
    /\ pc = "done"
    /\ Len(questions) = 2
    /\ questions[1] # questions[2]

-----------------------------------------------------------------------------
(* Properties of parse_question_from_text (checked under SpecScan) *)

\* s is a string of one or more letters A-D
C6Letters(s) ==
    /\ Len(s) >= 1
    /\ \A k \in 0..(Len(s) - 1) : At(s, k) \in {"A", "B", "C", "D"}

\* C6: the official and the community answer returned by
\* parse_question_from_text of parser_working are each absent or a string of
\* one or more upper-case letters A-D, every separator removed.
C6_AnswerLetterShape ==
    pc = "returned" /\ parser = "working" =>
        /\ parsed.correct_answer = None \/ C6Letters(parsed.correct_answer)
        /\ parsed.community_answer = None \/ C6Letters(parsed.community_answer)

\* the largest percentage among all vote occurrences vm
C7MaxOfAll(vm) ==
    LET all == {Int10(vm[k][2]) : k \in 1..Len(vm)}
    IN  CHOOSE m \in all : \A x \in all : x <= m

C7Bucket(text) ==
    LET vm == VoteMatches(text, 0)
    IN  IF vm = <<>> THEN "none"
        ELSE IF C7MaxOfAll(vm) > 70 THEN "high"
        ELSE IF C7MaxOfAll(vm) > 50 THEN "medium"
        ELSE "low"

\* C7: the community confidence is the bucket of the maximum percentage over
\* all vote occurrences of the block (more than 70 high, more than 50 medium,
\* otherwise low), none when there is no occurrence.
C7_ConfidenceFromMaximum ==
    pc = "returned" => parsed.community_confidence = C7Bucket(question_text)

\* the lines of the block as the loop sees them
C9Stripped == [k \in 1..Len(lines) |-> Strip(lines[k])]

\* the index of the first Correct-Answer line, Len(lines) + 1 without one
C9FirstAnswer ==
    LET hits == {k \in 1..Len(lines) :
                    /\ C9Stripped[k] # ""
                    /\ CorrectAnswerOf(parser, C9Stripped[k]) # None}
    IN  IF hits = {} THEN Len(lines) + 1
        ELSE CHOOSE k \in hits : \A x \in hits : k <= x

\* the non-blank lines that precede the first Correct-Answer line
C9Body ==
    SelectSeq(SubSeq(C9Stripped, 1, C9FirstAnswer - 1), LAMBDA l : l # "")

C9Starts == {k \in 1..Len(C9Body) : OptionMatch(C9Body[k]) # <<>>}

\* the index of the option-start line after k, Len(C9Body) + 1 without one
C9NextStart(k) ==
    LET later == {x \in C9Starts : x > k}
    IN  IF later = {} THEN Len(C9Body) + 1
        ELSE CHOOSE x \in later : \A y \in later : x <= y

\* the text of the option opened at line k: the text of its line followed by
\* the lines up to the next option-start line, joined with single spaces,
\* whitespace runs collapsed and trimmed
C9OptionText(k) ==
    CollapseSpace(Strip(Join(<<OptionMatch(C9Body[k])[2]>>
                             \o SubSeq(C9Body, k + 1, C9NextStart(k) - 1))))

\* the non-empty option texts of the option-start lines k.., in line order
RECURSIVE C9Options(_)
C9Options(k) ==
    IF k > Len(C9Body) THEN <<>>
    ELSE (IF k \in C9Starts /\ C9OptionText(k) # ""
          THEN <<C9OptionText(k)>> ELSE <<>>) \o C9Options(k + 1)

\* C9: the returned options are, in the order of the option-start lines that
\* precede the first Correct-Answer line, the text of each such line followed
\* by its continuation lines joined with single spaces, whitespace collapsed
\* and trimmed, the empty ones dropped: never more options than option-start
\* lines.
C9_OptionAssembly ==
    pc = "returned" =>
        /\ parsed.options = C9Options(1)
        /\ Len(parsed.options) <= Cardinality(C9Starts)

\* a block with a continued option and a dropped empty option returned at
\* least two options
C9_Witness ==
    /\ pc = "returned"
    /\ Len(parsed.options) >= 2
    /\ Len(parsed.options) < Cardinality(C9Starts)
    /\ \E k \in C9Starts : C9NextStart(k) > k + 1

\* 0 in_stem, 1 in_options, 2 answer_found
C10Rank ==
    IF correct_answer # None THEN 2 ELSE IF in_options THEN 1 ELSE 0

C10Forward ==
    /\ C10Rank' >= C10Rank
    /\ in_options => question_lines' = question_lines
    /\ correct_answer # None =>
          /\ UNCHANGED <<n, question_lines, correct_answer, current_option,
                         in_options>>
          /\ options' = WithLastOption(Locals)

\* the stem lines: the non-blank lines before the first option-start line and
\* before the first Correct-Answer line
C10StemLines ==
    LET first == IF C9Starts = {} THEN Len(C9Body) + 1
                 ELSE CHOOSE k \in C9Starts : \A x \in C9Starts : k <= x
    IN  SubSeq(C9Body, 1, first - 1)

C10Returned ==
    /\ parsed.question = Strip(Join(C10StemLines))
    /\ parsed.correct_answer =
          IF C9FirstAnswer <= Len(lines)
          THEN CorrectAnswerOf(parser, C9Stripped[C9FirstAnswer]) ELSE None
    /\ n = IF C9FirstAnswer <= Len(lines) THEN C9FirstAnswer ELSE Len(lines)

\* C10: the scan starts in in_stem and only moves forward through in_stem,
\* in_options, answer_found; after the first option-start line no line is
\* added to the stem; a Correct-Answer line ends the scan, so the stem and
\* the official answer are those seen up to the first Correct-Answer line
\* and no later line is read.
C10_ScanMovesForward ==
    /\ [](/\ n = 0 => C10Rank = 0
          /\ correct_answer # None => pc # "scan"
          /\ pc = "returned" => C10Returned)
    /\ [][C10Forward]_vars

\* the scan stopped in a block with options at the first of two
\* Correct-Answer lines that give different answers
C10_Witness ==
    /\ pc = "returned"
    /\ in_options
    /\ question_lines # <<>>
    /\ parsed.correct_answer \notin {None, ""}
    /\ \E k \in (n + 1)..Len(lines) :
          CorrectAnswerOf(parser, Strip(lines[k]))
              \notin {None, parsed.correct_answer}

-----------------------------------------------------------------------------
(* Properties relating the options of a record to the option letters of its
   block (checked under Spec) *)

\* the stripped non-blank lines of ls from line k on, up to the first
\* Correct-Answer line of script p
RECURSIVE C11BodyFrom(_, _, _)
C11BodyFrom(p, ls, k) ==
    IF k > Len(ls) THEN <<>>
    ELSE LET line == Strip(ls[k])
         IN  IF line = "" THEN C11BodyFrom(p, ls, k + 1)
             ELSE IF CorrectAnswerOf(p, line) # None THEN <<>>
             ELSE <<line>> \o C11BodyFrom(p, ls, k + 1)

\* the text that option-start line k of body opens: its own text and the
\* lines up to the next option-start line
RECURSIVE C11TextFrom(_, _)
C11TextFrom(body, k) ==
    IF k > Len(body) \/ OptionMatch(body[k]) # <<>> THEN ""
    ELSE " " \o body[k] \o C11TextFrom(body, k + 1)

\* the letters of the option-start lines of body from line k on whose option
\* is kept (non-empty after cleaning), in line order: entry x is the letter
\* that introduced options[x]
RECURSIVE C11LabelsFrom(_, _)
C11LabelsFrom(body, k) ==
    IF k > Len(body) THEN <<>>
    ELSE LET opt == OptionMatch(body[k])
         IN  (IF opt # <<>> /\ Strip(opt[2] \o C11TextFrom(body, k + 1)) # ""
              THEN <<opt[1]>> ELSE <<>>) \o C11LabelsFrom(body, k + 1)

C11Labels(p, text) == C11LabelsFrom(C11BodyFrom(p, Split(text), 1), 1)

\* the letter of a 0-based answer index
C11Letter(idx) == SubSeq("ABCDEFGHIJKLMNOPQRSTUVWXYZ", idx + 1, idx + 1)

\* C11: in the record accepted for the block just processed, every answer
\* index designates the option that was introduced in the block by the
\* option-start line labelled with the letter of that index.
C11_IndexDesignatesLetter ==
    pc \in {"loop", "done"} /\ i >= 1
        /\ ProcessBlockText(parser, question_text).accepted =>
            LET rec    == questions[Len(questions)]
                labels == C11Labels(parser, question_text)
            IN  /\ Len(labels) = Len(rec.options)
                /\ \A x \in 1..Len(rec.answer.indices) :
                      LET idx == rec.answer.indices[x]
                      IN  /\ idx < Len(labels)
                          /\ labels[idx + 1] = C11Letter(idx)

-----------------------------------------------------------------------------
(* Agreement of parse_pdf and parse_pdf_final (checked under Spec) *)

\* block j of the document text
C12Block(j) ==
    Slice(all_text, question_matches[j].start,
          IF j < Len(question_matches) THEN question_matches[j + 1].start
          ELSE Len(all_text))

\* no block of the document is flagged multiple-choice by parser_working
C12SingleChoiceDocument ==
    \A j \in 1..Len(question_matches) :
        ~ParseQuestionFromText("working", C12Block(j)).is_multiple_choice

\* both scripts reject block j, or both accept it with the same question,
\* the same options and the same integer answer
C12Agree(j) ==
    LET w == ProcessBlockText("working", C12Block(j))
        f == ProcessBlockText("final", C12Block(j))
    IN  /\ w.accepted = f.accepted
        /\ w.accepted =>
              /\ w.data.question = f.data.question
              /\ w.data.options = f.data.options
              /\ ~w.data.answer.is_list
              /\ w.data.answer = f.data.answer

\* the question, options and answer of the records script p accepts among
\* blocks 1..j, in block order
RECURSIVE C12Output(_, _)
C12Output(p, j) ==
    IF j = 0 THEN <<>>
    ELSE LET r == ProcessBlockText(p, C12Block(j))
         IN  IF r.accepted
             THEN Append(C12Output(p, j - 1),
                         <<r.data.question, r.data.options, r.data.answer>>)
             ELSE C12Output(p, j - 1)

\* the script that is not running
C12Other == IF parser = "working" THEN "final" ELSE "working"

\* C12: for a document text in which parser_working flags no block
\* multiple-choice, parse_pdf and parse_pdf_final accept the same blocks and
\* give each accepted block the same question, options and integer answer
\* index: the returned output of the running script is, record by record,
\* the one the other script computes.
C12_VariantsAgree ==
    pc = "done" /\ C12SingleChoiceDocument =>
        /\ \A j \in 1..Len(question_matches) : C12Agree(j)
        /\ [j \in 1..Len(questions) |->
               <<questions[j].question, questions[j].options,
                 questions[j].answer>>]
              = C12Output(C12Other, Len(question_matches))

====
